---- MODULE Spec2Model ----
(***************************************************************************)
(* A model of pycketcasts, a client of the Pocket Casts web API.           *)
(*                                                                         *)
(* The session (class PocketCast) logs in when it is constructed and then  *)
(* issues GET / POST / DELETE requests; the adapters (Episode, Podcast,    *)
(* ...) wrap a JSON payload and call back into the session.                *)
(*                                                                         *)
(* Representation:                                                         *)
(*   - a JSON object (a Python dict) is a record whose DOMAIN is the set   *)
(*     of keys present; the empty dict is <<>>;                            *)
(*   - Python None is the string "None" for string-valued fields and the   *)
(*     record NoneObj for object-valued slots and return values;           *)
(*   - a requests.Response is [ok, json]: `if res:` reads ok (status<400); *)
(*   - a string holding a path is the sequence of its "/"-separated        *)
(*     segments, so a leading slash is an empty first segment;             *)
(*   - every function of the source that issues requests is an operator    *)
(*     returning, besides its value, the sequence `reqs` of the requests   *)
(*     it issued and the `error` it raised ("None" when it returned).      *)
(***************************************************************************)
EXTENDS Integers, Sequences, FiniteSets, TLC

VARIABLES
    phase,      \* "new": no session yet; "ready": PocketCast() returned; "failed": it raised
    token,      \* PocketCast._token
    remote,     \* the title the server gives its podcasts now, "None" when it serves none
    held,       \* the adapter the caller holds: one taken from the result of the most
                \* recent operation that returns adapters, NoneObj when it returned none
    last,       \* the most recent step: operation, its value, its error, the requests it issued
    callers     \* the callers reading the podcast of the Episode held at the same time:
                \* for each its position in Episode.podcast and the value it has in hand

vars == <<phase, token, remote, held, last, callers>>

-----------------------------------------------------------------------------
(* Bounds and input domains *)

MaxList == 1          \* objects in one listing response
MaxDuration == 2      \* the duration of an episode, in seconds
MaxPodcasts == 2      \* podcasts in one listing response
MaxCategories == 2    \* categories in the catalog

None == "None"
NoneObj == [type |-> "None"]
EmptyJson == << >>

Tokens == {"t1"}
PodcastIds == {"p1", "p2"}
EpisodeIds == {"e1"}
Titles == {"A", "B"}
Progresses == {MaxDuration - 1, MaxDuration, MaxDuration + 1}

-----------------------------------------------------------------------------
(* Python dict and truthiness *)

Has(d, k) == k \in DOMAIN d

\* dict.get(k) for a string-valued key
Get(d, k) == IF Has(d, k) THEN d[k] ELSE None

\* truthiness of a dict or a list
TruthyJson(d) == DOMAIN d # {}

\* truthiness of a string-or-None value
TruthyStr(s) == s # None /\ s # ""

\* truthiness of an object-valued slot (an adapter instance is always truthy)
TruthyObj(o) == o # NoneObj

\* a JSON array held where the code expects a dict, and its truthiness
JsonArray(items) == [array |-> items]
IsArray(d) == Has(d, "array")
TruthyArray(d) == IF IsArray(d) THEN d.array # <<>> ELSE TruthyJson(d)

RetVal(v) == [type |-> "value", val |-> v]
RetBool(b) == [type |-> "bool", val |-> b]
RetList(s) == [type |-> "list", items |-> s]

-----------------------------------------------------------------------------
(* Endpoint router *)

endpoints == [
    login |-> <<"user", "login">>,
    list |-> <<"user", "podcast", "list">>,
    new_releases |-> <<"user", "new_releases">>,
    in_progress |-> <<"user", "in_progress">>,
    starred |-> <<"user", "starred">>,
    history |-> <<"user", "history">>,
    stats |-> <<"user", "stats", "summary">>,
    search |-> <<"discover", "search">>,
    recommendations |-> <<"discover", "recommend_episodes">>,
    featured |-> <<"featured">>,
    popular |-> <<"popular">>,
    trending |-> <<"trending">>,
    episode |-> <<"user", "podcast", "episode">>,
    episodes |-> <<"user", "podcast", "episodes">>,
    subscribe |-> <<"user", "podcast", "subscribe">>,
    unsubscribe |-> <<"user", "podcast", "unsubscribe">>,
    episode_archive |-> <<"sync", "update_episode_archive">>,
    episode_star |-> <<"sync", "update_episode_star">>,
    up_next |-> <<"up_next", "list">>,
    play_status |-> <<"sync", "update_episode">>,
    play_next |-> <<"up_next", "play_next">>,
    play_last |-> <<"up_next", "play_last">>,
    share |-> <<"podcasts", "share_link">>,
    account |-> <<"subscription", "status">>,
    files |-> <<"files">>
]

_get_endpoint(name) == endpoints[name]

api_base == "https://api.pocketcasts.com"
lists_base == "https://lists.pocketcasts.com"
podcast_api == "https://podcast-api.pocketcasts.com"

\* variant: every leading slash is removed
RECURSIVE StripAll(_)
StripAll(endpoint) ==
    IF Len(endpoint) > 0 /\ Head(endpoint) = "" THEN StripAll(Tail(endpoint)) ELSE endpoint

_make_url_strip_all(base, endpoint, suffix) ==
    [base |-> base, path |-> StripAll(endpoint), suffix |-> suffix]

_make_url(base, endpoint, suffix) ==
    [base |-> base,
     path |-> IF Len(endpoint) > 0 /\ Head(endpoint) = "" THEN Tail(endpoint) ELSE endpoint,
     suffix |-> suffix]

-----------------------------------------------------------------------------
(* Session: the three request methods.  A request is the record of what    *)
(* is handed to the transport; `include_token` is the caller's argument    *)
(* (POST and DELETE have none).                                            *)

NoHeader == <<>>
Bearer(t) == <<"Authorization", "Bearer", t>>

\* variant: a GET carries the header whenever the session holds a token
_get_token_if_present(url, include_token) ==
    [method |-> "GET", url |-> url, body |-> EmptyJson,
     include_token |-> include_token,
     headers |-> IF include_token \/ TruthyStr(token) THEN Bearer(token) ELSE NoHeader]

_get(url, include_token) ==
    [method |-> "GET", url |-> url, body |-> EmptyJson,
     include_token |-> include_token,
     headers |-> IF include_token THEN Bearer(token) ELSE NoHeader]

_post(url, data) ==
    [method |-> "POST", url |-> url, body |-> data,
     include_token |-> FALSE,
     headers |-> IF TruthyStr(token) THEN Bearer(token) ELSE NoHeader]

_delete(url) ==
    [method |-> "DELETE", url |-> url, body |-> EmptyJson,
     include_token |-> FALSE,
     headers |-> IF TruthyStr(token) THEN Bearer(token) ELSE NoHeader]

\* res is the transport's response to the one request issued
_get_json(url, include_token, res) ==
    [json |-> IF res.ok THEN res.json ELSE EmptyJson,
     reqs |-> <<_get(url, include_token)>>]

\* variant: the body of the response is returned whatever its status
_post_json_unchecked(url, data, res) ==
    [json |-> res.json,
     reqs |-> <<_post(url, data)>>]

_post_json(url, data, res) ==
    [json |-> IF res.ok THEN res.json ELSE EmptyJson,
     reqs |-> <<_post(url, data)>>]

-----------------------------------------------------------------------------
(* The server.  The body of podcast/full/<id> is decided by the server's   *)
(* current state; whether the exchange succeeds (ok) is not.               *)

RemoteTitle(podcast_id) ==
    IF podcast_id \in PodcastIds THEN remote ELSE None

PodcastFullJson(podcast_id) ==
    IF RemoteTitle(podcast_id) = None
    THEN EmptyJson
    ELSE [podcast |-> [uuid |-> podcast_id, title |-> RemoteTitle(podcast_id)]]

PodcastFullResponse(podcast_id, ok) == [ok |-> ok, json |-> PodcastFullJson(podcast_id)]

LoginResponses ==
    {[ok |-> FALSE, json |-> EmptyJson]}
    \cup {[ok |-> TRUE, json |-> [token |-> t]] : t \in Tokens}
    \cup {[ok |-> TRUE, json |-> [message |-> "no token"]]}
    \cup {[ok |-> TRUE, json |-> EmptyJson]}

-----------------------------------------------------------------------------
(* Podcast adapter *)

Podcast(data, extended_json) ==
    [type |-> "Podcast", _data |-> data, _extended_json |-> extended_json]

Podcast_id(p) == Get(p._data, "uuid")

_make_podcast(json_data) ==
    IF Has(json_data, "podcast") /\ TruthyJson(json_data.podcast)
    THEN Podcast(json_data.podcast, json_data)
    ELSE Podcast(json_data, EmptyJson)

\* variant: the list is built back to front
_make_podcasts_reversed(json_data) ==
    IF TruthyJson(json_data) /\ Has(json_data, "podcasts") /\ TruthyJson(json_data.podcasts)
    THEN [i \in 1..Len(json_data.podcasts) |->
            _make_podcast(json_data.podcasts[Len(json_data.podcasts) + 1 - i])]
    ELSE <<>>

_make_podcasts(json_data) ==
    IF TruthyJson(json_data) /\ Has(json_data, "podcasts") /\ TruthyJson(json_data.podcasts)
    THEN [i \in 1..Len(json_data.podcasts) |-> _make_podcast(json_data.podcasts[i])]
    ELSE <<>>

_get_podcast_data_by_id(podcast_id, res) ==
    _get_json([base |-> podcast_api, path |-> <<"podcast", "full", podcast_id>>, suffix |-> ""],
              FALSE, res)

\* variant: a lookup that finds nothing raises
get_podcast_by_id_raises(podcast_id, res) ==
    LET Return(r) ==
            IF TruthyJson(r.json) /\ Has(r.json, "podcast") /\ TruthyJson(r.json.podcast)
            THEN [value |-> _make_podcast(r.json), error |-> None, reqs |-> r.reqs]
            ELSE [value |-> NoneObj, error |-> "NotFoundError", reqs |-> r.reqs]
    IN  Return(_get_podcast_data_by_id(podcast_id, res))

get_podcast_by_id(podcast_id, res) ==
    LET Return(r) ==
            [value |-> IF TruthyJson(r.json) /\ Has(r.json, "podcast")
                          /\ TruthyJson(r.json.podcast)
                       THEN _make_podcast(r.json)
                       ELSE NoneObj,
             error |-> None,
             reqs |-> r.reqs]
    IN  Return(_get_podcast_data_by_id(podcast_id, res))

-----------------------------------------------------------------------------
(* Episode adapter.  `_api` tells whether __init__ has reached the line    *)
(* that sets self._api; `depth` is the depth of the Python call stack.     *)

RecursionLimit == 3

RECURSIVE Episode_podcast(_, _, _)
RECURSIVE Episode_podcast_id(_, _, _)

\* Episode.podcast_id: the payload's podcastUuid when truthy, else self.podcast.id
Episode_podcast_id(self, ok, depth) ==
    IF depth > RecursionLimit
    THEN [value |-> None, error |-> "RecursionError", reqs |-> <<>>, self |-> self]
    ELSE IF TruthyStr(Get(self._data, "podcastUuid"))
    THEN [value |-> Get(self._data, "podcastUuid"), error |-> None, reqs |-> <<>>, self |-> self]
    ELSE LET IdOf(r) ==
                 IF r.error # None
                 THEN [value |-> None, error |-> r.error, reqs |-> r.reqs, self |-> r.self]
                 ELSE IF ~TruthyObj(r.value)
                 THEN [value |-> None, error |-> "AttributeError", reqs |-> r.reqs,
                       self |-> r.self]
                 ELSE [value |-> Podcast_id(r.value), error |-> None, reqs |-> r.reqs,
                       self |-> r.self]
         IN  IdOf(Episode_podcast(self, ok, depth + 1))

\* variant: the cached Podcast is not consulted, every read fetches
Episode_podcast_refetch(self, ok, depth) ==
    IF ~TruthyStr(Get(self._data, "podcastUuid"))
    THEN [value |-> self._podcast, error |-> None, reqs |-> <<>>, self |-> self]
    ELSE LET r == get_podcast_by_id(self._data.podcastUuid,
                                    PodcastFullResponse(self._data.podcastUuid, ok)) IN
         [value |-> r.value, error |-> r.error, reqs |-> r.reqs,
          self |-> [self EXCEPT !._podcast = r.value]]

\* variant: a read whose fetch finds nothing raises
Episode_podcast_raises(self, ok, depth) ==
    IF TruthyObj(self._podcast)
    THEN [value |-> self._podcast, error |-> None, reqs |-> <<>>, self |-> self]
    ELSE LET podcast_id == Get(self._data, "podcastUuid")
             r == get_podcast_by_id(podcast_id, PodcastFullResponse(podcast_id, ok))
         IN  [value |-> r.value,
              error |-> IF TruthyObj(r.value) THEN None ELSE "NotFoundError",
              reqs |-> r.reqs,
              self |-> [self EXCEPT !._podcast = r.value]]

\* variant: an unresolved slot is read as a cached "no podcast", without a fetch
Episode_podcast_negative_cache(self, ok, depth) ==
    [value |-> self._podcast, error |-> None, reqs |-> <<>>, self |-> self]

\* Episode.podcast: the cached Podcast, else a fetch by id whose result is stored
Episode_podcast(self, ok, depth) ==
    IF depth > RecursionLimit
    THEN [value |-> NoneObj, error |-> "RecursionError", reqs |-> <<>>, self |-> self]
    ELSE IF TruthyObj(self._podcast)
    THEN [value |-> self._podcast, error |-> None, reqs |-> <<>>, self |-> self]
    ELSE IF ~self._api
    THEN [value |-> NoneObj, error |-> "AttributeError", reqs |-> <<>>, self |-> self]
    ELSE LET Store(i, r) ==
                 [value |-> r.value, error |-> None, reqs |-> i.reqs \o r.reqs,
                  self |-> [i.self EXCEPT !._podcast = r.value]]
             Fetch(i) ==
                 IF i.error # None
                 THEN [value |-> NoneObj, error |-> i.error, reqs |-> i.reqs, self |-> i.self]
                 ELSE Store(i, get_podcast_by_id(i.value, PodcastFullResponse(i.value, ok)))
         IN  Fetch(Episode_podcast_id(self, ok, depth + 1))

\* variant: the constructor stores the session before it fetches the podcast
Episode_api_first(data, podcast, ok) ==
    LET self == [type |-> "Episode", _data |-> data, _podcast |-> podcast, _api |-> TRUE]
        Store(i, r) ==
            [value |-> [self EXCEPT !._podcast = r.value],
             error |-> None, reqs |-> i.reqs \o r.reqs]
        Fetch(i) ==
            IF i.error # None
            THEN [value |-> NoneObj, error |-> i.error, reqs |-> i.reqs]
            ELSE Store(i, get_podcast_by_id(i.value, PodcastFullResponse(i.value, ok)))
    IN  IF TruthyObj(podcast)
        THEN [value |-> self, error |-> None, reqs |-> <<>>]
        ELSE Fetch(Episode_podcast_id(self, ok, 1))

\* Episode.__init__: stores the podcast given, and fetches it by id when none is given
Episode(data, podcast, ok) ==
    LET self == [type |-> "Episode", _data |-> data, _podcast |-> podcast, _api |-> FALSE]
        Store(i, r) ==
            [value |-> [self EXCEPT !._podcast = r.value, !._api = TRUE],
             error |-> None, reqs |-> i.reqs \o r.reqs]
        Fetch(i) ==
            IF i.error # None
            THEN [value |-> NoneObj, error |-> i.error, reqs |-> i.reqs]
            ELSE Store(i, get_podcast_by_id(i.value, PodcastFullResponse(i.value, ok)))
    IN  IF TruthyObj(podcast)
        THEN [value |-> [self EXCEPT !._api = TRUE], error |-> None, reqs |-> <<>>]
        ELSE Fetch(Episode_podcast_id(self, ok, 1))

Episode_id(self) == Get(self._data, "uuid")

\* Episode.published_date: strptime with a format that has no directive parses
\* only the format string itself; every other value, and None, gives None
Episode_published_date(self) ==
    IF Get(self._data, "published") = "YYYY-MM-DDTHH:mm:ssZ" THEN "1900-01-01 00:00:00" ELSE None

_make_episode(json_data, podcast, ok) ==
    Episode(IF Has(json_data, "episode") /\ TruthyJson(json_data.episode)
            THEN json_data.episode
            ELSE json_data,
            podcast, ok)

\* the loop of _make_episodes from element i on; oks[i] is the outcome of the
\* fetch that building element i may issue; an error ends the loop
RECURSIVE MakeEpisodesFrom(_, _, _, _)
MakeEpisodesFrom(list, podcast, oks, i) ==
    IF i > Len(list)
    THEN [value |-> <<>>, error |-> None, reqs |-> <<>>]
    ELSE LET Extend(e, rest) ==
                 [value |-> <<e.value>> \o rest.value, error |-> rest.error,
                  reqs |-> e.reqs \o rest.reqs]
             Continue(e) ==
                 IF e.error # None
                 THEN [value |-> <<>>, error |-> e.error, reqs |-> e.reqs]
                 ELSE Extend(e, MakeEpisodesFrom(list, podcast, oks, i + 1))
         IN  Continue(_make_episode(list[i], podcast, oks[i]))

_make_episodes(json_data, podcast, oks) ==
    IF TruthyJson(json_data) /\ Has(json_data, "episodes") /\ TruthyJson(json_data.episodes)
    THEN MakeEpisodesFrom(json_data.episodes, podcast, oks, 1)
    ELSE [value |-> <<>>, error |-> None, reqs |-> <<>>]

-----------------------------------------------------------------------------
(* Episode actions *)

ValidationError == "Exception"

\* the body each Episode action posts, and the endpoint it posts to
EpisodeActions ==
    {"mark_played", "mark_unplayed", "add_star", "remove_star",
     "archive", "unarchive", "play_next", "play_last"}

EpisodeActionEndpoint(name) ==
    CASE name \in {"mark_played", "mark_unplayed"} -> "play_status"
      [] name \in {"add_star", "remove_star"} -> "episode_star"
      [] name \in {"archive", "unarchive"} -> "episode_archive"
      [] name = "play_next" -> "play_next"
      [] name = "play_last" -> "play_last"

\* variant: archive and unarchive post the episode itself, not a list of episodes
EpisodeActionBody_flat(self, name, podcast_id) ==
    CASE name \in {"mark_played", "archive"} ->
           [uuid |-> Episode_id(self), podcast |-> podcast_id, status |-> 3]
      [] name \in {"mark_unplayed", "unarchive"} ->
           [uuid |-> Episode_id(self), podcast |-> podcast_id, status |-> 1, position |-> 0]
      [] name = "add_star" ->
           [uuid |-> Episode_id(self), podcast |-> podcast_id, star |-> TRUE]
      [] name = "remove_star" ->
           [uuid |-> Episode_id(self), podcast |-> podcast_id, star |-> FALSE]
      [] name \in {"play_next", "play_last"} ->
           [version |-> 2,
            episode |-> [uuid |-> Episode_id(self), title |-> Get(self._data, "title"),
                         url |-> Get(self._data, "url"), podcast |-> podcast_id,
                         published |-> Episode_published_date(self)]]

EpisodeActionBody(self, name, podcast_id) ==
    CASE name = "mark_played" ->
           [uuid |-> Episode_id(self), podcast |-> podcast_id, status |-> 3]
      [] name = "mark_unplayed" ->
           [uuid |-> Episode_id(self), podcast |-> podcast_id, status |-> 1, position |-> 0]
      [] name = "add_star" ->
           [uuid |-> Episode_id(self), podcast |-> podcast_id, star |-> TRUE]
      [] name = "remove_star" ->
           [uuid |-> Episode_id(self), podcast |-> podcast_id, star |-> FALSE]
      [] name = "archive" ->
           [episodes |-> <<[uuid |-> Episode_id(self), podcast |-> podcast_id]>>,
            archive |-> TRUE]
      [] name = "unarchive" ->
           [episodes |-> <<[uuid |-> Episode_id(self), podcast |-> podcast_id]>>,
            archive |-> FALSE]
      [] name \in {"play_next", "play_last"} ->
           [version |-> 2,
            episode |-> [uuid |-> Episode_id(self), title |-> Get(self._data, "title"),
                         url |-> Get(self._data, "url"), podcast |-> podcast_id,
                         published |-> Episode_published_date(self)]]

\* variant: a falsy response raises instead of giving False
Episode_action_raises(self, name, ok, res) ==
    [value |-> IF res.ok THEN RetBool(TRUE) ELSE NoneObj,
     error |-> IF res.ok THEN None ELSE "HTTPError",
     reqs |-> <<_post(_make_url(api_base, _get_endpoint(EpisodeActionEndpoint(name)), ""),
                      EpisodeActionBody(self, name, Get(self._data, "podcastUuid")))>>,
     self |-> self]

\* mark_played .. play_last: the body is built (reading podcast_id), then one POST
Episode_action(self, name, ok, res) ==
    LET Post(i) ==
            IF i.error # None
            THEN [value |-> NoneObj, error |-> i.error, reqs |-> i.reqs, self |-> i.self]
            ELSE [value |-> RetBool(res.ok), error |-> None,
                  reqs |-> i.reqs \o
                           <<_post(_make_url(api_base,
                                             _get_endpoint(EpisodeActionEndpoint(name)), ""),
                                   EpisodeActionBody(i.self, name, i.value))>>,
                  self |-> i.self]
    IN  Post(Episode_podcast_id(self, ok, 1))

\* variant: the bound is checked with >= instead of >
Episode_update_progress_ge(self, progress, ok, res) ==
    IF Has(self._data, "duration") /\ progress >= self._data.duration
    THEN [value |-> NoneObj, error |-> ValidationError, reqs |-> <<>>, self |-> self]
    ELSE [value |-> RetBool(res.ok), error |-> None,
          reqs |-> <<_post(_make_url(api_base, _get_endpoint("play_status"), ""),
                           [uuid |-> Episode_id(self), podcast |-> Get(self._data, "podcastUuid"),
                            status |-> 2, position |-> progress])>>,
          self |-> self]

Episode_update_progress(self, progress, ok, res) ==
    IF ~Has(self._data, "duration")
    THEN [value |-> NoneObj, error |-> "TypeError", reqs |-> <<>>, self |-> self]
    ELSE IF progress > self._data.duration
    THEN [value |-> NoneObj, error |-> ValidationError, reqs |-> <<>>, self |-> self]
    ELSE LET Post(i) ==
                 IF i.error # None
                 THEN [value |-> NoneObj, error |-> i.error, reqs |-> i.reqs, self |-> i.self]
                 ELSE [value |-> RetBool(res.ok), error |-> None,
                       reqs |-> i.reqs \o
                                <<_post(_make_url(api_base, _get_endpoint("play_status"), ""),
                                        [uuid |-> Episode_id(i.self), podcast |-> i.value,
                                         status |-> 2, position |-> progress])>>,
                       self |-> i.self]
         IN  Post(Episode_podcast_id(self, ok, 1))

-----------------------------------------------------------------------------
(* Podcast actions and the operations that return Episodes *)

Podcast_subscribe(self, res) ==
    [value |-> RetBool(res.ok), error |-> None,
     reqs |-> <<_post(_make_url(api_base, _get_endpoint("subscribe"), ""),
                      [uuid |-> Podcast_id(self)])>>]

Podcast_unsubscribe(self, res) ==
    [value |-> RetBool(res.ok), error |-> None,
     reqs |-> <<_post(_make_url(api_base, _get_endpoint("unsubscribe"), ""),
                      [uuid |-> Podcast_id(self)])>>]

\* variant: the episodes are built without the parent
Podcast_episodes_without_parent(self, res, oks) ==
    LET Return(r, m) == [value |-> m.value, error |-> m.error, reqs |-> r.reqs \o m.reqs]
        Make(r) == Return(r, _make_episodes(r.json, NoneObj, oks))
    IN  Make(_post_json(_make_url(api_base, _get_endpoint("episodes"), ""),
                        [uuid |-> Podcast_id(self)], res))

Podcast_episodes(self, res, oks) ==
    LET Return(r, m) == [value |-> m.value, error |-> m.error, reqs |-> r.reqs \o m.reqs]
        Make(r) == Return(r, _make_episodes(r.json, self, oks))
    IN  Make(_post_json(_make_url(api_base, _get_endpoint("episodes"), ""),
                        [uuid |-> Podcast_id(self)], res))

EpisodeListings ==
    {"in_progress", "up_next", "starred", "history", "new_releases", "recommendations"}

\* in_progress, up_next, starred, history, new_releases, recommendations
EpisodeListing(name, res, oks) ==
    LET Return(r, m) == [value |-> m.value, error |-> m.error, reqs |-> r.reqs \o m.reqs]
        Make(r) == Return(r, _make_episodes(r.json, NoneObj, oks))
    IN  Make(_post_json(_make_url(api_base, _get_endpoint(name), ""),
                        IF name = "up_next" THEN [version |-> 2, model |-> "webplayer"]
                                            ELSE EmptyJson,
                        res))

PodcastListings == {"subscriptions", "search", "trending", "popular", "featured", "content"}

\* variant: the static lists are requested with the token
PodcastListingJson_with_token(name, arg, res) ==
    CASE name = "subscriptions" ->
           _post_json(_make_url(api_base, _get_endpoint("list"), ""), [v |-> 1], res)
      [] name = "search" ->
           _post_json(_make_url(api_base, _get_endpoint("search"), ""), [term |-> arg], res)
      [] name \in {"trending", "popular", "featured"} ->
           _get_json(_make_url(lists_base, _get_endpoint(name), ".json"), TRUE, res)
      [] name = "content" ->
           _get_json([base |-> lists_base, path |-> <<arg>>, suffix |-> ".json"], FALSE, res)

\* the one request of a listing of podcasts; `arg` is the keyword of search
\* and the list id of content
PodcastListingJson(name, arg, res) ==
    CASE name = "subscriptions" ->
           _post_json(_make_url(api_base, _get_endpoint("list"), ""), [v |-> 1], res)
      [] name = "search" ->
           _post_json(_make_url(api_base, _get_endpoint("search"), ""), [term |-> arg], res)
      [] name \in {"trending", "popular", "featured"} ->
           _get_json(_make_url(lists_base, _get_endpoint(name), ".json"), FALSE, res)
      [] name = "content" ->
           _get_json([base |-> lists_base, path |-> <<arg>>, suffix |-> ".json"], FALSE, res)

\* subscriptions, search, trending, popular, featured, content
PodcastListing(name, arg, res) ==
    LET Return(r) == [value |-> _make_podcasts(r.json), error |-> None, reqs |-> r.reqs]
    IN  Return(PodcastListingJson(name, arg, res))

-----------------------------------------------------------------------------
(* Categories *)

Category(data) == [type |-> "Category", _data |-> data]

\* Category.name, .icon, .source: self._data.get(key); a list has no get
Category_get(self, key) ==
    IF IsArray(self._data)
    THEN [value |-> None, error |-> "AttributeError"]
    ELSE [value |-> Get(self._data, key), error |-> None]

_make_category(json_data) == Category(json_data)

\* one Category per element of the catalog, each built from the whole of
\* json_data (the argument passed is json_data, not the element)
_make_categories(json_data) ==
    IF TruthyArray(json_data)
    THEN [i \in 1..Len(json_data.array) |-> _make_category(json_data)]
    ELSE <<>>

categories_url ==
    [base |-> "https://static.pocketcasts.com",
     path |-> <<"discover", "json", "categories_v2.json">>, suffix |-> ""]

categories(res) ==
    LET Return(r) == [value |-> _make_categories(r.json), error |-> None, reqs |-> r.reqs]
    IN  Return(_get_json(categories_url, FALSE, res))

\* str.lower on the names used
Lower(str) ==
    CASE str \in {"News", "NEWS", "news"} -> "news"
      [] str \in {"Art", "art"} -> "art"
      [] OTHER -> str

\* the loop of category from element i on: name.lower() raises
\* AttributeError on None
RECURSIVE CategoryFrom(_, _, _)
CategoryFrom(list, category_name, i) ==
    IF i > Len(list)
    THEN [value |-> NoneObj, error |-> None]
    ELSE LET Compare(n) ==
                 IF n.error # None
                 THEN [value |-> NoneObj, error |-> n.error]
                 ELSE IF n.value = None
                 THEN [value |-> NoneObj, error |-> "AttributeError"]
                 ELSE IF Lower(n.value) = Lower(category_name)
                 THEN [value |-> list[i], error |-> None]
                 ELSE CategoryFrom(list, category_name, i + 1)
         IN  Compare(Category_get(list[i], "name"))

category(category_name, res) ==
    LET Return(c, m) == [value |-> m.value, error |-> m.error, reqs |-> c.reqs]
        Scan(c) == Return(c, CategoryFrom(c.value, category_name, 1))
    IN  Scan(categories(res))

\* str.replace('[regionCode]', region) on the path of the source
ReplaceRegion(source, region) ==
    [source EXCEPT !.path = [i \in 1..Len(source.path) |->
                               IF source.path[i] = "[regionCode]" THEN region
                               ELSE source.path[i]]]

Category_get_podcasts(self, region, res) ==
    LET Return(r) == [value |-> _make_podcasts(r.json), error |-> None, reqs |-> r.reqs]
        Fetch(src) ==
            IF src.error # None \/ src.value = None
            THEN [value |-> <<>>, error |-> "AttributeError", reqs |-> <<>>]
            ELSE Return(_get_json(ReplaceRegion(src.value, region), FALSE, res))
    IN  Fetch(Category_get(self, "source"))

-----------------------------------------------------------------------------
(* Account and its files *)

Account(data) == [type |-> "Account", _data |-> data]

File(data) == [type |-> "File", _data |-> data]

Account__account_file_details(self, res) ==
    _get_json(_make_url(api_base, _get_endpoint("files"), ""), TRUE, res)

Account_files(self, res) ==
    LET Return(r) ==
            [value |-> IF Has(r.json, "files")
                       THEN [i \in 1..Len(r.json.files) |-> File(r.json.files[i])]
                       ELSE <<>>,
             error |-> None, reqs |-> r.reqs]
    IN  Return(Account__account_file_details(self, res))

\* File.delete: self._api is read first, and File.__init__ sets no _api
File_delete(self, res) ==
    IF ~Has(self, "_api")
    THEN [value |-> NoneObj, error |-> "AttributeError", reqs |-> <<>>]
    ELSE [value |-> RetBool(res.ok), error |-> None,
          reqs |-> <<_delete([base |-> api_base, path |-> <<"files", Get(self._data, "uuid")>>,
                              suffix |-> ""])>>]

\* File.update: the body is built first (self.colour is int(None) when the
\* payload has no colour and none is given), then self._api is read
File_update(self, name, colour, res) ==
    IF colour = 0 /\ ~Has(self._data, "colour")
    THEN [value |-> NoneObj, error |-> "TypeError", reqs |-> <<>>]
    ELSE IF ~Has(self, "_api")
    THEN [value |-> NoneObj, error |-> "AttributeError", reqs |-> <<>>]
    ELSE [value |-> RetBool(res.ok), error |-> None,
          reqs |-> <<_post(_make_url(api_base, _get_endpoint("files"), ""),
                           [uuid |-> Get(self._data, "uuid"),
                            title |-> IF TruthyStr(name) THEN name ELSE Get(self._data, "title"),
                            colour |-> IF colour # 0 THEN colour ELSE self._data.colour])>>]

-----------------------------------------------------------------------------
(* Statistics *)

Stats(data) == [type |-> "Stats", _data |-> data]

stats(res) ==
    LET Return(r) ==
            [value |-> IF TruthyJson(r.json) THEN Stats(r.json) ELSE NoneObj,
             error |-> None, reqs |-> r.reqs]
    IN  Return(_post_json(_make_url(api_base, _get_endpoint("stats"), ""), EmptyJson, res))

-----------------------------------------------------------------------------
(* Read-only accessors *)

\* self._data.get(key)
Accessor_get(self, key) ==
    IF IsArray(self._data)
    THEN [value |-> NoneObj, error |-> "AttributeError"]
    ELSE [value |-> RetVal(Get(self._data, key)), error |-> None]

\* int(self._data.get(key)): int(None) raises TypeError
Accessor_int(self, key) ==
    IF Has(self._data, key)
    THEN [value |-> RetVal(self._data[key]), error |-> None]
    ELSE [value |-> NoneObj, error |-> "TypeError"]

\* Episode.playing: self._data.get('playing_status') > 0, and None > 0 raises TypeError
Episode_playing(self) ==
    IF Has(self._data, "playing_status")
    THEN [value |-> RetBool(self._data.playing_status > 0), error |-> None]
    ELSE [value |-> NoneObj, error |-> "TypeError"]

\* the accessors read: the adapter, the accessor, the key of the payload
Accessors ==
    {[on |-> "Episode", name |-> "Episode.id", key |-> "uuid"],
     [on |-> "Episode", name |-> "Episode.playing", key |-> "playing_status"],
     [on |-> "Podcast", name |-> "Podcast.id", key |-> "uuid"],
     [on |-> "Category", name |-> "Category.name", key |-> "name"],
     [on |-> "Stats", name |-> "Stats.silence_time_removed", key |-> "timeSilenceRemoval"],
     [on |-> "Stats", name |-> "Stats.time_listened", key |-> "timeListened"],
     [on |-> "File", name |-> "File.id", key |-> "uuid"],
     [on |-> "File", name |-> "File.size", key |-> "size"],
     [on |-> "File", name |-> "File.colour", key |-> "colour"],
     [on |-> "Account", name |-> "Account.web", key |-> "web"]}

Accessor(self, a) ==
    CASE a.name = "Episode.playing" -> Episode_playing(self)
      [] a.name \in {"Stats.silence_time_removed", "Stats.time_listened",
                     "File.size", "File.colour"} -> Accessor_int(self, a.key)
      [] OTHER -> Accessor_get(self, a.key)

\* Podcast._get_full_podcast_object: __init__ is run again on the JSON of
\* podcast/full/<id>, with the default extended_json
Podcast__get_full_podcast_object(self, res) ==
    LET Reinit(data) ==
            [value |-> NoneObj, error |-> None, reqs |-> data.reqs,
             self |-> Podcast(data.json, EmptyJson)]
    IN  Reinit(_get_podcast_data_by_id(Podcast_id(self), res))

_get_episode_data_by_id(episode_id, podcast_id, res) ==
    _post_json(_make_url(api_base, _get_endpoint("episode"), ""),
               [uuid |-> episode_id, podcast |-> podcast_id], res)

\* ok1: the fetch of the podcast; ok2: the fetch Episode.__init__ issues when
\* it is given no podcast
get_episode_by_id(episode_id, podcast_id, res, ok1, ok2) ==
    LET Return(d, p, e) ==
            [value |-> e.value, error |-> e.error, reqs |-> d.reqs \o p.reqs \o e.reqs]
        Make(d, p) == Return(d, p, _make_episode(d.json, p.value, ok2))
        Found(d) ==
            IF TruthyJson(d.json)
            THEN Make(d, get_podcast_by_id(podcast_id, PodcastFullResponse(podcast_id, ok1)))
            ELSE [value |-> NoneObj, error |-> None, reqs |-> d.reqs]
    IN  Found(_get_episode_data_by_id(episode_id, podcast_id, res))

account(res) ==
    LET Return(r) ==
            [value |-> Account(r.json), error |-> None, reqs |-> r.reqs]
    IN  Return(_get_json(_make_url(api_base, _get_endpoint("account"), ""), TRUE, res))

-----------------------------------------------------------------------------
(* What the server may answer *)

\* episode payloads: with or without the podcast's id, with or without a duration
EpisodePayloads ==
    {[uuid |-> u] : u \in EpisodeIds}
    \cup {[uuid |-> u, duration |-> MaxDuration] : u \in EpisodeIds}
    \cup {[uuid |-> u, podcastUuid |-> "p1", duration |-> MaxDuration, playing_status |-> 1] :
            u \in EpisodeIds}

SeqsUpTo(S, n) == UNION {[1..k -> S] : k \in 0..n}

\* the answers to a listing of episodes: a failure, a body without the
\* collection, and collections of up to MaxList payloads
EpisodeListResponses ==
    {[ok |-> FALSE, json |-> EmptyJson], [ok |-> TRUE, json |-> EmptyJson],
     [ok |-> TRUE, json |-> [message |-> "x"]]}
    \cup {[ok |-> TRUE, json |-> [episodes |-> l]] :
            l \in SeqsUpTo(EpisodePayloads, MaxList)}

\* podcast objects of a listing
PodcastPayloads == {[uuid |-> p] : p \in PodcastIds}

\* the answers to a listing of podcasts: failures (without a body, and with
\* one), bodies without the collection, and collections of up to MaxPodcasts
PodcastListResponses ==
    {[ok |-> FALSE, json |-> EmptyJson], [ok |-> TRUE, json |-> EmptyJson],
     [ok |-> TRUE, json |-> [message |-> "x"]],
     [ok |-> FALSE, json |-> [podcasts |-> <<[uuid |-> "p1"]>>]]}
    \cup {[ok |-> TRUE, json |-> [podcasts |-> l]] :
            l \in SeqsUpTo(PodcastPayloads, MaxPodcasts)}

ListingArgs == {"x"}

\* entries of the catalog: two whose names differ in case only
CategoryEntries ==
    {[name |-> "NEWS", icon |-> "i1",
      source |-> [base |-> lists_base, path |-> <<"[regionCode]", "news1">>, suffix |-> ""]],
     [name |-> "News", icon |-> "i2",
      source |-> [base |-> lists_base, path |-> <<"[regionCode]", "news2">>, suffix |-> ""]]}

CategoryNames == {"news", "art"}

Regions == {"us"}

\* the answers of the catalog: a failure, and arrays of up to MaxCategories entries
CatalogResponses ==
    {[ok |-> FALSE, json |-> EmptyJson]}
    \cup {[ok |-> TRUE, json |-> JsonArray(l)] : l \in SeqsUpTo(CategoryEntries, MaxCategories)}

FilePayloads == {[uuid |-> "f1", title |-> "T", colour |-> 1], [uuid |-> "f1"]}

FileNames == {None, "n"}

\* the colour given to update: 0 stands for none given (None and 0 are falsy)
FileColours == {0, 2}

\* the answers to stats: failures (without a body, and with one), an empty
\* body, and a body with one of the counters
StatsResponses ==
    {[ok |-> FALSE, json |-> EmptyJson], [ok |-> TRUE, json |-> EmptyJson],
     [ok |-> FALSE, json |-> [timeSilenceRemoval |-> 5]],
     [ok |-> TRUE, json |-> [timeSilenceRemoval |-> 5]]}

\* the answers to the listing of files
FileListResponses ==
    {[ok |-> FALSE, json |-> EmptyJson], [ok |-> TRUE, json |-> EmptyJson],
     [ok |-> TRUE, json |-> [account |-> "a"]]}
    \cup {[ok |-> TRUE, json |-> [files |-> l]] : l \in SeqsUpTo(FilePayloads, MaxList)}

EpisodeResponses ==
    {[ok |-> FALSE, json |-> EmptyJson], [ok |-> TRUE, json |-> EmptyJson]}
    \cup {[ok |-> TRUE, json |-> e] : e \in EpisodePayloads}

AccountResponses ==
    {[ok |-> FALSE, json |-> EmptyJson], [ok |-> TRUE, json |-> [web |-> "w"]]}

PlainResponses == {[ok |-> b, json |-> EmptyJson] : b \in BOOLEAN}

\* outcomes of the fetches that building a list may issue: one per element,
\* fixed to TRUE where no fetch can happen
FetchOutcomes(res, podcast) ==
    LET l == IF res.ok /\ Has(res.json, "episodes") THEN res.json.episodes ELSE <<>> IN
    {oks \in [1..Len(l) -> BOOLEAN] :
        \A i \in 1..Len(l) :
            (TruthyObj(podcast) \/ ~Has(l[i], "podcastUuid")) => oks[i]}

\* outcomes of the fetch an operation on Episode e may issue: fixed to TRUE
\* where e holds its podcast, so that none is issued
FetchOutcome(e) ==
    IF TruthyObj(e._podcast) THEN {TRUE} ELSE BOOLEAN

Ids(list) == [i \in 1..Len(list) |-> Get(list[i]._data, "uuid")]

-----------------------------------------------------------------------------
(* Session construction *)

\* the callers of Episode.podcast; in the sequential program none is inside it
Callers == {"c1", "c2"}
Idle == [c \in Callers |-> [pc |-> "idle", local |-> NoneObj]]

Step(op, value, error, reqs) == [op |-> op, value |-> value, error |-> error, reqs |-> reqs]

\* a step of an action: also the truthiness of the response to its POST
ActionStep(op, r, res) == Step(op, r.value, r.error, r.reqs) @@ [response |-> res.ok]

\* a step of a listing: the ids of the adapters returned, and the answer read
ListingStep(op, r, answer) ==
    Step(op, RetList(Ids(r.value)), r.error, r.reqs) @@ [answer |-> answer]

\* a step of a top-level operation of the session: the answer read, and
\* whether the operation invoked just before was the same one
SessionStep(op, value, r, answer) ==
    Step(op, value, r.error, r.reqs) @@ [answer |-> answer, again |-> last.op = op]

\* PocketCast.__init__ with _login: one POST; the token is stored when the
\* JSON is truthy, and data['token'] raises KeyError when it has no token.
\* variant: the login is posted without the scope
_login_without_scope(res) ==
    LET Store(r) ==
            [token |-> IF TruthyJson(r.json) /\ Has(r.json, "token") THEN r.json.token ELSE None,
             error |-> IF TruthyJson(r.json) /\ ~Has(r.json, "token") THEN "KeyError" ELSE None,
             reqs |-> r.reqs]
    IN  Store(_post_json(_make_url(api_base, _get_endpoint("login"), ""),
                         [email |-> "email", password |-> "password"],
                         res))

_login(res) ==
    LET Store(r) ==
            [token |-> IF TruthyJson(r.json) /\ Has(r.json, "token") THEN r.json.token ELSE None,
             error |-> IF TruthyJson(r.json) /\ ~Has(r.json, "token") THEN "KeyError" ELSE None,
             reqs |-> r.reqs]
    IN  Store(_post_json(_make_url(api_base, _get_endpoint("login"), ""),
                         [email |-> "email", password |-> "password", scope |-> "webplayer"],
                         res))

Construct ==
    /\ phase = "new"
    /\ \E res \in LoginResponses :
         \E r \in {_login(res)} :
         /\ token' = r.token
         /\ phase' = IF r.error = None THEN "ready" ELSE "failed"
         /\ last' = Step("PocketCast", NoneObj, r.error, r.reqs)
    /\ UNCHANGED <<remote, held, callers>>

\* The server's data changes: the podcasts are published, renamed or removed.
RemoteUpdate ==
    /\ \E t \in Titles \cup {None} :
         /\ remote # t
         /\ remote' = t
    /\ last' = Step("remote_update", NoneObj, None, <<>>)
    /\ UNCHANGED <<phase, token, held, callers>>

GetPodcastById ==
    /\ phase = "ready"
    /\ \E podcast_id \in PodcastIds, ok \in BOOLEAN :
         \E r \in {get_podcast_by_id(podcast_id, PodcastFullResponse(podcast_id, ok))} :
         /\ last' = SessionStep("get_podcast_by_id", r.value, r,
                                 PodcastFullResponse(podcast_id, ok))
         /\ held' = IF TruthyObj(r.value) THEN r.value ELSE NoneObj
    /\ UNCHANGED <<phase, token, remote, callers>>

GetEpisodeById ==
    /\ phase = "ready"
    /\ \E episode_id \in EpisodeIds, podcast_id \in PodcastIds,
          res \in EpisodeResponses, ok1 \in BOOLEAN, ok2 \in BOOLEAN :
         \E r \in {get_episode_by_id(episode_id, podcast_id, res, ok1, ok2)} :
         /\ last' = SessionStep("get_episode_by_id", r.value, r, res)
         /\ held' = IF r.error = None /\ TruthyObj(r.value) THEN r.value ELSE NoneObj
    /\ UNCHANGED <<phase, token, remote, callers>>

ListPodcasts ==
    /\ phase = "ready"
    /\ \E name \in PodcastListings, arg \in ListingArgs, res \in PodcastListResponses :
       \E r \in {PodcastListing(name, arg, res)} :
         /\ last' = SessionStep(name, RetList(Ids(r.value)), r, res)
         /\ held' \in IF r.value # <<>>
                      THEN {r.value[i] : i \in 1..Len(r.value)}
                      ELSE {NoneObj}
    /\ UNCHANGED <<phase, token, remote, callers>>

GetCategories ==
    /\ phase = "ready"
    /\ \E res \in CatalogResponses :
       \E r \in {categories(res)} :
         /\ last' = SessionStep("categories", RetList(r.value), r, res)
         /\ held' \in IF r.value # <<>>
                      THEN {r.value[i] : i \in 1..Len(r.value)}
                      ELSE {NoneObj}
    /\ UNCHANGED <<phase, token, remote, callers>>

GetCategory ==
    /\ phase = "ready"
    /\ \E category_name \in CategoryNames, res \in CatalogResponses :
       \E r \in {category(category_name, res)} :
         /\ last' = SessionStep("category", r.value, r, res)
                       @@ [category_name |-> category_name]
         /\ held' = IF r.error = None /\ TruthyObj(r.value) THEN r.value ELSE NoneObj
    /\ UNCHANGED <<phase, token, remote, callers>>

CategoryGetPodcasts ==
    /\ phase = "ready"
    /\ held.type = "Category"
    /\ \E region \in Regions, res \in PodcastListResponses :
       \E r \in {Category_get_podcasts(held, region, res)} :
         /\ last' = ListingStep("Category.get_podcasts", r, res)
         /\ held' \in IF r.value # <<>>
                      THEN {r.value[i] : i \in 1..Len(r.value)}
                      ELSE {NoneObj}
    /\ UNCHANGED <<phase, token, remote, callers>>

AccountFiles ==
    /\ phase = "ready"
    /\ held.type = "Account"
    /\ \E res \in FileListResponses :
       \E r \in {Account_files(held, res)} :
         /\ last' = ListingStep("Account.files", r, res)
         /\ held' \in IF r.value # <<>>
                      THEN {r.value[i] : i \in 1..Len(r.value)}
                      ELSE {NoneObj}
    /\ UNCHANGED <<phase, token, remote, callers>>

FileUpdate ==
    /\ phase = "ready"
    /\ held.type = "File"
    /\ \E name \in FileNames, colour \in FileColours, res \in PlainResponses :
         last' = ActionStep("File.update", File_update(held, name, colour, res), res)
    /\ UNCHANGED <<phase, token, remote, held, callers>>

FileDelete ==
    /\ phase = "ready"
    /\ held.type = "File"
    /\ \E res \in PlainResponses :
         last' = ActionStep("File.delete", File_delete(held, res), res)
    /\ UNCHANGED <<phase, token, remote, held, callers>>

\* variant: the session keeps the statistics it has read and returns them
\* again without a request
GetStats_cached ==
    /\ phase = "ready"
    /\ \E res \in StatsResponses :
       \E r \in {stats(res)} :
         /\ last' = IF last.op = "stats"
                    THEN [last EXCEPT !.reqs = <<>>, !.answer = res, !.again = TRUE]
                    ELSE SessionStep("stats", r.value, r, res)
         /\ held' = IF last.op = "stats"
                    THEN held
                    ELSE IF TruthyObj(r.value) THEN r.value ELSE NoneObj
    /\ UNCHANGED <<phase, token, remote, callers>>

GetStats ==
    /\ phase = "ready"
    /\ \E res \in StatsResponses :
       \E r \in {stats(res)} :
         /\ last' = SessionStep("stats", r.value, r, res)
         /\ held' = IF TruthyObj(r.value) THEN r.value ELSE NoneObj
    /\ UNCHANGED <<phase, token, remote, callers>>

ReadAccessor ==
    /\ phase = "ready"
    /\ \E a \in Accessors :
         /\ held.type = a.on
         /\ \E r \in {Accessor(held, a)} :
              last' = Step(a.name, r.value, r.error, <<>>) @@ [key |-> a.key]
    /\ UNCHANGED <<phase, token, remote, held, callers>>

ReloadPodcast ==
    /\ phase = "ready"
    /\ held.type = "Podcast"
    /\ \E ok \in BOOLEAN :
       \E r \in {Podcast__get_full_podcast_object(
                   held, PodcastFullResponse(Podcast_id(held), ok))} :
         /\ last' = Step("Podcast._get_full_podcast_object", r.value, r.error, r.reqs)
         /\ held' = r.self
    /\ UNCHANGED <<phase, token, remote, callers>>

ListEpisodes ==
    /\ phase = "ready"
    /\ \E name \in EpisodeListings, res \in EpisodeListResponses :
       \E oks \in FetchOutcomes(res, NoneObj) :
         \E r \in {EpisodeListing(name, res, oks)} :
         /\ last' = ListingStep(name, r, res)
         /\ held' \in IF r.error = None /\ r.value # <<>>
                      THEN {r.value[i] : i \in 1..Len(r.value)}
                      ELSE {NoneObj}
    /\ UNCHANGED <<phase, token, remote, callers>>

PodcastEpisodes ==
    /\ phase = "ready"
    /\ held.type = "Podcast"
    /\ \E res \in EpisodeListResponses :
       \E oks \in FetchOutcomes(res, held) :
         \E r \in {Podcast_episodes(held, res, oks)} :
         /\ last' = ListingStep("Podcast.episodes", r, res)
         /\ held' \in IF r.error = None /\ r.value # <<>>
                      THEN {r.value[i] : i \in 1..Len(r.value)}
                      ELSE {NoneObj}
    /\ UNCHANGED <<phase, token, remote, callers>>

PodcastAction ==
    /\ phase = "ready"
    /\ held.type = "Podcast"
    /\ \E res \in PlainResponses :
         \/ last' = ActionStep("Podcast.subscribe", Podcast_subscribe(held, res), res)
         \/ last' = ActionStep("Podcast.unsubscribe", Podcast_unsubscribe(held, res), res)
    /\ UNCHANGED <<phase, token, remote, held, callers>>

ReadPodcast ==
    /\ phase = "ready"
    /\ held.type = "Episode"
    /\ \E ok \in FetchOutcome(held) :
         \E r \in {Episode_podcast(held, ok, 1)} :
         /\ last' = Step("Episode.podcast", r.value, r.error, r.reqs)
         /\ held' = r.self
    /\ UNCHANGED <<phase, token, remote, callers>>

EpisodeAction ==
    /\ phase = "ready"
    /\ held.type = "Episode"
    /\ \E name \in EpisodeActions, ok \in FetchOutcome(held), res \in PlainResponses :
         \E r \in {Episode_action(held, name, ok, res)} :
         /\ last' = ActionStep(name, r, res)
         /\ held' = r.self
    /\ UNCHANGED <<phase, token, remote, callers>>

UpdateProgress ==
    /\ phase = "ready"
    /\ held.type = "Episode"
    /\ \E progress \in Progresses, ok \in FetchOutcome(held), res \in PlainResponses :
         \E r \in {Episode_update_progress(held, progress, ok, res)} :
         /\ last' = ActionStep("update_progress", r, res) @@ [progress |-> progress]
         /\ held' = r.self
    /\ UNCHANGED <<phase, token, remote, callers>>

\* variant: a rejected request makes the session log in again
GetAccount_relogin ==
    /\ phase = "ready"
    /\ \E res \in AccountResponses, login \in LoginResponses :
       \E r \in {account(res)}, l \in {_login(login)} :
             /\ held' = r.value
             /\ IF res.ok
                THEN last' = SessionStep("account", r.value, r, res) /\ token' = token
                ELSE last' = SessionStep("account", r.value,
                                         [r EXCEPT !.reqs = r.reqs \o l.reqs], res)
                     /\ token' = l.token
    /\ UNCHANGED <<phase, remote, callers>>

GetAccount ==
    /\ phase = "ready"
    /\ \E res \in AccountResponses :
       \E r \in {account(res)} :
         /\ last' = SessionStep("account", r.value, r, res)
         /\ held' = r.value
    /\ UNCHANGED <<phase, token, remote, callers>>

Init ==
    /\ phase = "new"
    /\ token = None
    /\ remote \in Titles \cup {None}
    /\ held = NoneObj
    /\ last = Step("none", NoneObj, None, <<>>)
    /\ callers = Idle

Next ==
    \/ Construct
    \/ RemoteUpdate
    \/ GetPodcastById
    \/ GetEpisodeById
    \/ ListPodcasts
    \/ GetCategories
    \/ GetCategory
    \/ CategoryGetPodcasts
    \/ AccountFiles
    \/ FileUpdate
    \/ FileDelete
    \/ GetStats
    \/ ReadAccessor
    \/ ReloadPodcast
    \/ ListEpisodes
    \/ PodcastEpisodes
    \/ PodcastAction
    \/ ReadPodcast
    \/ EpisodeAction
    \/ UpdateProgress
    \/ GetAccount

Spec == Init /\ [][Next]_vars

-----------------------------------------------------------------------------
(* _make_url on its own: the function applied to the paths a caller may    *)
(* hand it.  A path is the sequence of its segments, and each leading      *)
(* slash is a leading empty segment: "/a/b" is <<"", "a", "b">>.           *)

MaxSlashes == 2
MaxSegments == 2

Slashes(n) == [i \in 1..n |-> ""]

UrlBases == {api_base, lists_base, podcast_api}
UrlSuffixes == {"", ".json"}
UrlPaths ==
    {Slashes(n) \o p : n \in 0..MaxSlashes,
                       p \in UNION {[1..k -> {"user", "login"}] : k \in 1..MaxSegments}}

UrlInit ==
    /\ phase = "new"
    /\ token = None
    /\ remote = None
    /\ held = NoneObj
    /\ last = Step("none", NoneObj, None, <<>>)
    /\ callers = Idle

MakeUrl ==
    /\ \E base \in UrlBases, endpoint \in UrlPaths, suffix \in UrlSuffixes :
         last' = Step("_make_url", RetVal(_make_url(base, endpoint, suffix)), None, <<>>)
                   @@ [base |-> base, endpoint |-> endpoint, suffix |-> suffix]
    /\ UNCHANGED <<phase, token, remote, held, callers>>

UrlNext == MakeUrl

UrlSpec == UrlInit /\ [][UrlNext]_vars

-----------------------------------------------------------------------------
(* Episode.podcast read by several callers at once.  The property's body   *)
(* is three accesses of self._podcast with no lock around them: the test   *)
(* `if not self._podcast`, the assignment of the fetch's result, and the   *)
(* `return self._podcast`; the callers' accesses interleave.  The Episode  *)
(* is one whose construction found no podcast, so its slot is unresolved.  *)
(* `last` keeps the requests of all the reads, the number of writes of the *)
(* slot, those that stored a Podcast, and whether two reads overlapped.    *)

RaceStep(value, reqs, writes, resolutions) ==
    Step("Episode.podcast", value, None, reqs)
      @@ [writes |-> writes, resolutions |-> resolutions,
          overlapped |-> \/ last.overlapped
                         \/ \A c \in Callers : callers'[c].pc \in {"fetch", "write", "return"}]

RaceInit ==
    /\ phase = "ready"
    /\ token \in Tokens
    /\ remote \in Titles \cup {None}
    /\ held \in {Episode(d, NoneObj, FALSE).value :
                   d \in {e \in EpisodePayloads : Has(e, "podcastUuid")}}
    /\ last = Step("Episode.podcast", NoneObj, None, <<>>)
                 @@ [writes |-> 0, resolutions |-> 0, overlapped |-> FALSE]
    /\ callers = Idle

\* variant: the slot is not consulted, every read fetches
Podcast_check_unconditional(c) ==
    /\ callers[c].pc = "idle"
    /\ callers' = [callers EXCEPT ![c].pc = "fetch"]
    /\ last' = RaceStep(last.value, last.reqs, last.writes, last.resolutions)
    /\ UNCHANGED <<phase, token, remote, held>>

\* if not self._podcast
Podcast_check(c) ==
    /\ callers[c].pc = "idle"
    /\ callers' = [callers EXCEPT ![c].pc = IF TruthyObj(held._podcast) THEN "return"
                                                                       ELSE "fetch"]
    /\ last' = RaceStep(last.value, last.reqs, last.writes, last.resolutions)
    /\ UNCHANGED <<phase, token, remote, held>>

\* self._api.get_podcast_by_id(podcast_id=self.podcast_id)
Podcast_fetch(c) ==
    /\ callers[c].pc = "fetch"
    /\ \E ok \in BOOLEAN :
       \E i \in {Episode_podcast_id(held, ok, 1)} :
       \E r \in {get_podcast_by_id(i.value, PodcastFullResponse(i.value, ok))} :
         /\ callers' = [callers EXCEPT ![c] = [pc |-> "write", local |-> r.value]]
         /\ last' = RaceStep(last.value, last.reqs \o i.reqs \o r.reqs,
                             last.writes, last.resolutions)
    /\ UNCHANGED <<phase, token, remote, held>>

\* self._podcast = <the Podcast fetched, or None>
Podcast_write(c) ==
    /\ callers[c].pc = "write"
    /\ held' = [held EXCEPT !._podcast = callers[c].local]
    /\ callers' = [callers EXCEPT ![c].pc = "return"]
    /\ last' = RaceStep(last.value, last.reqs, last.writes + 1,
                        IF TruthyObj(callers[c].local) THEN last.resolutions + 1
                                                       ELSE last.resolutions)
    /\ UNCHANGED <<phase, token, remote>>

\* return self._podcast
Podcast_return(c) ==
    /\ callers[c].pc = "return"
    /\ callers' = [callers EXCEPT ![c] = [pc |-> "done", local |-> held._podcast]]
    /\ last' = RaceStep(held._podcast, last.reqs, last.writes, last.resolutions)
    /\ UNCHANGED <<phase, token, remote, held>>

RaceNext ==
    \E c \in Callers :
      \/ Podcast_check(c)
      \/ Podcast_fetch(c)
      \/ Podcast_write(c)
      \/ Podcast_return(c)

RaceSpec == RaceInit /\ [][RaceNext]_vars

-----------------------------------------------------------------------------
(* The earlier revision, src/pocketcasts/pocketcasts.py.  Its adapters     *)
(* copy the payload's fields at construction, and its Episode keeps the    *)
(* podcast it is given in the attribute `podcast` and never fetches one.   *)
(* _make_url, _get_endpoint, _login, _post and _post_json are the same     *)
(* functions in both revisions.                                            *)

pocketcasts_endpoints == [
    list |-> <<"user", "podcast", "list">>,
    new_releases |-> <<"user", "new_releases">>,
    in_progress |-> <<"user", "in_progress">>,
    starred |-> <<"user", "starred">>,
    history |-> <<"user", "history">>,
    recommendations |-> <<"discover", "recommend_episodes">>,
    episodes |-> <<"user", "podcast", "episodes">>,
    episode_archive |-> <<"sync", "update_episode_archive">>,
    up_next |-> <<"up_next", "list">>,
    play_status |-> <<"sync", "update_episode">>,
    play_next |-> <<"up_next", "play_next">>,
    play_last |-> <<"up_next", "play_last">>
]

pocketcasts__get_endpoint(name) == pocketcasts_endpoints[name]

\* Podcast.__init__
pocketcasts_Podcast(data) ==
    [type |-> "Podcast", _data |-> data, uuid |-> Get(data, "uuid")]

\* Episode.__init__: the podcast is stored as given
pocketcasts_Episode(data, podcast) ==
    [type |-> "Episode", _data |-> data, podcast |-> podcast,
     uuid |-> Get(data, "uuid"), title |-> Get(data, "title"), url |-> Get(data, "url"),
     published_date |-> Get(data, "url")]

pocketcasts__make_podcasts(json_data) ==
    IF TruthyJson(json_data) /\ Has(json_data, "podcasts") /\ TruthyJson(json_data.podcasts)
    THEN [i \in 1..Len(json_data.podcasts) |-> pocketcasts_Podcast(json_data.podcasts[i])]
    ELSE <<>>

pocketcasts__make_episodes(json_data, podcast) ==
    IF TruthyJson(json_data) /\ Has(json_data, "episodes") /\ TruthyJson(json_data.episodes)
    THEN [i \in 1..Len(json_data.episodes) |->
            pocketcasts_Episode(json_data.episodes[i], podcast)]
    ELSE <<>>

\* subscriptions
pocketcasts_subscriptions(res) ==
    LET Return(r) ==
            [value |-> pocketcasts__make_podcasts(r.json), error |-> None, reqs |-> r.reqs]
    IN  Return(_post_json(_make_url(api_base, pocketcasts__get_endpoint("list"), ""),
                          [v |-> 1], res))

\* in_progress, up_next, starred, history, new_releases, recommendations:
\* _make_episodes is given no podcast
pocketcasts_EpisodeListing(name, res) ==
    LET Return(r) ==
            [value |-> pocketcasts__make_episodes(r.json, NoneObj), error |-> None,
             reqs |-> r.reqs]
    IN  Return(_post_json(_make_url(api_base, pocketcasts__get_endpoint(name), ""),
                          IF name = "up_next" THEN [version |-> 2, model |-> "webplayer"]
                                              ELSE EmptyJson,
                          res))

\* Podcast.episodes: _make_episodes is given the parent
pocketcasts_Podcast_episodes(self, res) ==
    LET Return(r) ==
            [value |-> pocketcasts__make_episodes(r.json, self), error |-> None,
             reqs |-> r.reqs]
    IN  Return(_post_json(_make_url(api_base, pocketcasts__get_endpoint("episodes"), ""),
                          [uuid |-> self.uuid], res))

pocketcasts_EpisodeActions ==
    {"mark_played", "mark_unplayed", "archive", "unarchive", "play_next", "play_last"}

pocketcasts_EpisodeActionEndpoint(name) ==
    CASE name \in {"mark_played", "mark_unplayed"} -> "play_status"
      [] name \in {"archive", "unarchive"} -> "episode_archive"
      [] name = "play_next" -> "play_next"
      [] name = "play_last" -> "play_last"

pocketcasts_EpisodeActionBody(self, name) ==
    CASE name = "mark_played" ->
           [uuid |-> self.uuid, podcast |-> self.podcast.uuid, status |-> 3]
      [] name = "mark_unplayed" ->
           [uuid |-> self.uuid, podcast |-> self.podcast.uuid, status |-> 1, position |-> 0]
      [] name = "archive" ->
           [episodes |-> <<[uuid |-> self.uuid, podcast |-> self.podcast.uuid]>>,
            archive |-> TRUE]
      [] name = "unarchive" ->
           [episodes |-> <<[uuid |-> self.uuid, podcast |-> self.podcast.uuid]>>,
            archive |-> FALSE]
      [] name \in {"play_next", "play_last"} ->
           [version |-> 2,
            episode |-> [uuid |-> self.uuid, title |-> self.title, url |-> self.url,
                         podcast |-> self.podcast.uuid, published |-> self.published_date]]

\* mark_played .. play_last: the body reads self.podcast.uuid, and None has
\* no attribute uuid; then one POST
pocketcasts_Episode_action(self, name, res) ==
    IF ~TruthyObj(self.podcast)
    THEN [value |-> NoneObj, error |-> "AttributeError", reqs |-> <<>>]
    ELSE [value |-> RetBool(res.ok), error |-> None,
          reqs |-> <<_post(_make_url(api_base,
                                     pocketcasts__get_endpoint(
                                         pocketcasts_EpisodeActionEndpoint(name)), ""),
                           pocketcasts_EpisodeActionBody(self, name))>>]

pocketcasts_Subscriptions ==
    /\ phase = "ready"
    /\ \E res \in PodcastListResponses :
       \E r \in {pocketcasts_subscriptions(res)} :
         /\ last' = Step("subscriptions", RetList(Ids(r.value)), r.error, r.reqs)
                       @@ [answer |-> res]
         /\ held' \in IF r.value # <<>>
                      THEN {r.value[i] : i \in 1..Len(r.value)}
                      ELSE {NoneObj}
    /\ UNCHANGED <<phase, token, remote, callers>>

pocketcasts_ListEpisodes ==
    /\ phase = "ready"
    /\ \E name \in EpisodeListings, res \in EpisodeListResponses :
       \E r \in {pocketcasts_EpisodeListing(name, res)} :
         /\ last' = Step(name, RetList(Ids(r.value)), r.error, r.reqs) @@ [answer |-> res]
         /\ held' \in IF r.value # <<>>
                      THEN {r.value[i] : i \in 1..Len(r.value)}
                      ELSE {NoneObj}
    /\ UNCHANGED <<phase, token, remote, callers>>

pocketcasts_PodcastEpisodes ==
    /\ phase = "ready"
    /\ held.type = "Podcast"
    /\ \E res \in EpisodeListResponses :
       \E r \in {pocketcasts_Podcast_episodes(held, res)} :
         /\ last' = Step("Podcast.episodes", RetList(Ids(r.value)), r.error, r.reqs)
                       @@ [answer |-> res]
         /\ held' \in IF r.value # <<>>
                      THEN {r.value[i] : i \in 1..Len(r.value)}
                      ELSE {NoneObj}
    /\ UNCHANGED <<phase, token, remote, callers>>

pocketcasts_EpisodeAction ==
    /\ phase = "ready"
    /\ held.type = "Episode"
    /\ \E name \in pocketcasts_EpisodeActions, res \in PlainResponses :
         last' = ActionStep(name, pocketcasts_Episode_action(held, name, res), res)
    /\ UNCHANGED <<phase, token, remote, held, callers>>

pocketcasts_Init ==
    /\ phase = "new"
    /\ token = None
    /\ remote = None
    /\ held = NoneObj
    /\ last = Step("none", NoneObj, None, <<>>)
    /\ callers = Idle

pocketcasts_Next ==
    \/ Construct
    \/ pocketcasts_Subscriptions
    \/ pocketcasts_ListEpisodes
    \/ pocketcasts_PodcastEpisodes
    \/ pocketcasts_EpisodeAction

pocketcasts_Spec == pocketcasts_Init /\ [][pocketcasts_Next]_vars

-----------------------------------------------------------------------------
(* Properties *)

IsEpisode(o) == o.type = "Episode"
Resolved(e) == IsEpisode(e) /\ TruthyObj(e._podcast)
Unresolved(e) == IsEpisode(e) /\ ~TruthyObj(e._podcast)

PodcastFullUrl(podcast_id) ==
    [base |-> podcast_api, path |-> <<"podcast", "full", podcast_id>>, suffix |-> ""]

IsFetchById(r) == r.method = "GET" /\ r.url.base = podcast_api /\ r.url.path[1] = "podcast"

Fetches(reqs) == {i \in DOMAIN reqs : IsFetchById(reqs[i])}

\* the operations on the Episode held, which leave the caller holding the same instance
EpisodeOps == {"Episode.podcast", "update_progress"} \cup EpisodeActions

\* C1: once the podcast of an Episode is resolved, no operation on that Episode
\* (and no change of the server's data) changes the slot or issues a fetch by
\* id, and a read of the relationship returns the cached entity and issues no
\* request at all.
C1_ResolvedStaysCached ==
    [][(Resolved(held) /\ last'.op \in EpisodeOps \cup {"remote_update"})
         => /\ held'._podcast = held._podcast
            /\ Fetches(last'.reqs) = {}
            /\ last'.op = "Episode.podcast"
                 => (last'.reqs = <<>> /\ last'.value = held._podcast /\ last'.error = None)]_vars

\* a read served from the cache although the server now gives the podcast another title
C1_Witness ==
    /\ Resolved(held)
    /\ held._podcast._extended_json # EmptyJson
    /\ last.op = "Episode.podcast"
    /\ last.value = held._podcast
    /\ last.reqs = <<>>
    /\ remote # Get(held._podcast._data, "title")

\* C2: building the Episodes of a listing issues no request besides the
\* listing's own POST, and leaves the podcast slot of an Episode whose payload
\* carries a podcast id unresolved until the relationship is read.
C2_ConstructionDefersFetch ==
    (TruthyStr(token) /\ last.op \in EpisodeListings /\ last.error = None)
      => /\ Fetches(last.reqs) = {}
         /\ (last.value.items # <<>> /\ Has(held._data, "podcastUuid")) => Unresolved(held)

\* C3: a read of the podcast of an Episode whose slot is unresolved issues
\* exactly one request, the fetch by id of the payload's podcast, and stores
\* what it returns: when nothing is found the slot stays unresolved, so the
\* next read fetches again.
C3_NegativeNotCached ==
    [][(Unresolved(held) /\ last'.op = "Episode.podcast")
         => /\ last'.error = None
            /\ Len(last'.reqs) = 1
            /\ last'.reqs[1] = _get(PodcastFullUrl(held._data.podcastUuid), FALSE)
            /\ held'._podcast = last'.value
            /\ remote = None => last'.value = NoneObj
            /\ last'.value = NoneObj => Unresolved(held')]_vars

\* a read that fetched, found nothing and left the slot unresolved
C3_Witness ==
    /\ Unresolved(held)
    /\ last.op = "Episode.podcast"
    /\ Len(last.reqs) = 1
    /\ IsFetchById(last.reqs[1])
    /\ last.value = NoneObj

\* C4 as stated: a read whose fetch by id finds no podcast fails with NotFoundError.
C4_NotFoundRaises ==
    (last.op = "Episode.podcast" /\ Fetches(last.reqs) # {} /\ Unresolved(held))
      => last.error = "NotFoundError"

\* C4, amended: a read whose fetch by id finds no podcast raises nothing and
\* returns None to its caller.
C4_NotFoundReturnsNone ==
    (last.op = "Episode.podcast" /\ Fetches(last.reqs) # {} /\ Unresolved(held))
      => (last.error = None /\ last.value = NoneObj)

\* a read that fetched while the server has no such podcast
C4_Witness ==
    /\ last.op = "Episode.podcast"
    /\ Fetches(last.reqs) # {}
    /\ Unresolved(held)
    /\ remote = None
    /\ last.error = None

\* C5: update_progress(p) raises the validation error and issues no request
\* when p > duration; when p <= duration it issues exactly one request, a POST
\* to sync/update_episode whose position is p.
C5_UpdateProgress ==
    (last.op = "update_progress" /\ Has(held._data, "duration"))
      => IF last.progress > held._data.duration
         THEN last.error = ValidationError /\ last.reqs = <<>>
         ELSE /\ last.error = None
              /\ Len(last.reqs) = 1
              /\ last.reqs[1].method = "POST"
              /\ last.reqs[1].url = _make_url(api_base, <<"sync", "update_episode">>, "")
              /\ last.reqs[1].body.position = last.progress

\* the largest progress accepted: p = duration, one POST
C5_Witness ==
    /\ last.op = "update_progress"
    /\ Has(held._data, "duration")
    /\ last.progress = held._data.duration
    /\ Len(last.reqs) = 1
    /\ last.reqs[1].body.position = last.progress

IsLogin(r) == r.method = "POST" /\ r.url = _make_url(api_base, <<"user", "login">>, "")

\* C6: once the session is constructed, no operation changes the token or
\* issues another login request.
C6_TokenReadOnly ==
    [][phase = "ready"
         => /\ token' = token
            /\ phase' = "ready"
            /\ \A i \in DOMAIN last'.reqs : ~IsLogin(last'.reqs[i])]_vars

\* an action performed after construction, sent with the token the login stored
C6_Witness ==
    /\ phase = "ready"
    /\ token \in Tokens
    /\ last.op = "Podcast.subscribe"
    /\ last.reqs[1].headers = Bearer(token)

\* C7 as stated: every request issued after construction carries the
\* Authorization header whenever the token is asked for or the session holds one.
C7_HeaderWheneverToken ==
    last.op # "PocketCast"
      => \A i \in DOMAIN last.reqs :
           (last.reqs[i].include_token \/ TruthyStr(token))
             => last.reqs[i].headers = Bearer(token)

\* C7, amended: a POST or DELETE carries 'Authorization: Bearer <token>'
\* exactly when the session holds a token; a GET carries it exactly when its
\* caller asks for the token, whether or not the session holds one; the login
\* request itself carries none.
C7_HeaderByMethod ==
    \A i \in DOMAIN last.reqs :
        LET r == last.reqs[i] IN
        IF last.op = "PocketCast"
        THEN r.headers = NoHeader
        ELSE /\ r.method \in {"POST", "DELETE"}
                  => r.headers = IF TruthyStr(token) THEN Bearer(token) ELSE NoHeader
             /\ r.method = "GET"
                  => r.headers = IF r.include_token THEN Bearer(token) ELSE NoHeader

\* a logged-in session whose operation sent a POST with the header and a GET without
C7_Witness ==
    /\ token \in Tokens
    /\ Len(last.reqs) = 2
    /\ last.reqs[1].method = "POST" /\ last.reqs[1].headers = Bearer(token)
    /\ last.reqs[2].method = "GET" /\ last.reqs[2].headers = NoHeader

\* C8: a login that is rejected, or whose response has no token, makes the
\* construction fail with an error; it never completes with the token unset.
C8_LoginFailureRaises ==
    last.op = "PocketCast"
      => \/ phase = "ready" /\ TruthyStr(token) /\ last.error = None
         \/ phase = "failed" /\ last.error # None

\* C9: every operation issues zero or one request (stated for the operations
\* of a logged-in session that return without an error).
C9_AtMostOneRequest ==
    (TruthyStr(token) /\ last.error = None) => Len(last.reqs) <= 1

PodcastActions == {"Podcast.subscribe", "Podcast.unsubscribe"}

\* C10: each action of Podcast and of Episode issues exactly one POST and
\* returns a boolean, true exactly when the response is truthy; it raises
\* nothing, also when the response is falsy.
C10_ActionsReturnBoolean ==
    last.op \in EpisodeActions \cup PodcastActions
      => /\ last.error = None
         /\ Len(last.reqs) = 1
         /\ last.reqs[1].method = "POST"
         /\ last.value = RetBool(last.response)

\* an Episode action whose response was falsy: False, and no error
C10_Witness ==
    /\ last.op = "play_next"
    /\ ~last.response
    /\ last.value = RetBool(FALSE)
    /\ last.error = None
    /\ Len(last.reqs) = 1

\* the id Episode e names as its podcast: the one in its payload when it
\* carries one, else the id of the Podcast it holds
PodcastIdOf(e) ==
    IF TruthyStr(Get(e._data, "podcastUuid"))
    THEN e._data.podcastUuid
    ELSE Podcast_id(e._podcast)

\* C11: Episode.archive() issues one POST to sync/update_episode_archive whose
\* body is {episodes: [{uuid: episode id, podcast: id of the episode's
\* podcast}], archive: true}, and returns true exactly when the response is truthy.
C11_ArchiveRequest ==
    last.op = "archive"
      => /\ last.error = None
         /\ Len(last.reqs) = 1
         /\ last.reqs[1].method = "POST"
         /\ last.reqs[1].url = _make_url(api_base, <<"sync", "update_episode_archive">>, "")
         /\ last.reqs[1].body =
              [episodes |-> <<[uuid |-> Get(held._data, "uuid"), podcast |-> PodcastIdOf(held)]>>,
               archive |-> TRUE]
         /\ last.value = RetBool(last.response)

\* an archive accepted by the server, of an Episode that knows its podcast
\* only through the Podcast it holds
C11_Witness ==
    /\ last.op = "archive"
    /\ last.response
    /\ last.value = RetBool(TRUE)
    /\ ~Has(held._data, "podcastUuid")
    /\ last.reqs[1].body.episodes[1].podcast \in PodcastIds

\* C12: in a session that holds the token of its login, subscriptions issues
\* exactly one POST to user/podcast/list with body {v: 1} and the
\* Authorization header, and returns Podcast adapters, one per object of the
\* response's podcasts collection and in its order, each with the uuid of its
\* object as id.
C12_Subscriptions ==
    (TruthyStr(token) /\ last.op = "subscriptions")
      => /\ last.error = None
         /\ Len(last.reqs) = 1
         /\ last.reqs[1].method = "POST"
         /\ last.reqs[1].url = _make_url(api_base, <<"user", "podcast", "list">>, "")
         /\ last.reqs[1].body = [v |-> 1]
         /\ last.reqs[1].headers = Bearer(token)
         /\ (last.answer.ok /\ Has(last.answer.json, "podcasts"))
              => /\ last.value.items = [i \in 1..Len(last.answer.json.podcasts) |->
                                          Get(last.answer.json.podcasts[i], "uuid")]
                 /\ last.value.items # <<>>
                      => /\ held.type = "Podcast"
                         /\ \E i \in 1..Len(last.value.items) :
                              /\ Podcast_id(held) = last.value.items[i]
                              /\ held._data = last.answer.json.podcasts[i]

\* two subscriptions returned in the order of the response
C12_Witness ==
    /\ token \in Tokens
    /\ last.op = "subscriptions"
    /\ last.answer.ok
    /\ last.value.items = <<"p2", "p1">>
    /\ Podcast_id(held) = "p1"
    /\ last.reqs[1].headers = Bearer(token)

\* every operation that returns a sequence of adapters, and the key of the
\* collection it reads
ListingOps ==
    PodcastListings \cup EpisodeListings
      \cup {"Podcast.episodes", "Category.get_podcasts", "Account.files"}

CollectionKey(op) ==
    CASE op \in PodcastListings \cup {"Category.get_podcasts"} -> "podcasts"
      [] op \in EpisodeListings \cup {"Podcast.episodes"} -> "episodes"
      [] op = "Account.files" -> "files"

\* C13: every listing operation returns an empty sequence, and raises no
\* error, when the response is falsy or empty or lacks the collection key.
C13_ListingsEmpty ==
    (TruthyStr(token) /\ last.op \in ListingOps
       /\ (~last.answer.ok \/ ~Has(last.answer.json, CollectionKey(last.op))))
      => (last.error = None /\ last.value.items = <<>>)

\* the first entry of the catalog whose name matches in lower case
RECURSIVE FirstMatch(_, _, _)
FirstMatch(entries, name, i) ==
    IF i > Len(entries) THEN NoneObj
    ELSE IF Lower(entries[i].name) = Lower(name) THEN entries[i]
    ELSE FirstMatch(entries, name, i + 1)

\* C14: category(name) returns the first category of the catalog whose name
\* equals the given name case-insensitively, with the name, icon and source
\* of that entry, and None when no entry matches.
C14_CategoryByName ==
    (TruthyStr(token) /\ last.op = "category" /\ last.answer.ok)
      => /\ last.error = None
         /\ IF FirstMatch(last.answer.json.array, last.category_name, 1) = NoneObj
            THEN last.value = NoneObj
            ELSE /\ last.value # NoneObj
                 /\ last.value._data = FirstMatch(last.answer.json.array, last.category_name, 1)

AccessorOps == {a.name : a \in Accessors}

\* C15: no accessor of an adapter raises: it returns the field of the payload,
\* and None when the payload does not have the key.
C15_AccessorsNeverRaise ==
    (TruthyStr(token) /\ last.op \in AccessorOps)
      => /\ last.error = None
         /\ ~Has(held._data, last.key) => last.value = RetVal(None)

\* C18: on a File returned by Account.files, update issues exactly one POST
\* to the files endpoint and delete exactly one DELETE to files/<id>; each
\* returns true exactly when the response is truthy, and the payload of the
\* File is left as it was.
C18_FileActions ==
    (TruthyStr(token) /\ last.op \in {"File.update", "File.delete"}
       /\ Has(held._data, "colour"))
      => /\ last.error = None
         /\ Len(last.reqs) = 1
         /\ last.reqs[1].method = IF last.op = "File.update" THEN "POST" ELSE "DELETE"
         /\ last.reqs[1].url.path =
              IF last.op = "File.update" THEN <<"files">>
              ELSE <<"files", Get(held._data, "uuid")>>
         /\ last.value = RetBool(last.response)

\* the operations that hand the answer of their one JSON request to the
\* caller as an entity or none
LookupOps == {"get_podcast_by_id", "get_episode_by_id", "stats", "category"}

\* C16: when the response to the JSON request of an operation is falsy or
\* empty, the operation raises nothing and treats it as nothing found: a
\* lookup by id and stats return None, a listing returns an empty sequence;
\* no second request is issued.
C16_FalsyResponseIsEmpty ==
    (last.op \in LookupOps \cup ListingOps \cup {"categories"}
       /\ last.reqs # <<>>
       /\ (~last.answer.ok \/ ~TruthyArray(last.answer.json)))
      => /\ last.error = None
         /\ Len(last.reqs) = 1
         /\ IF last.op \in LookupOps
            THEN last.value = NoneObj
            ELSE last.value.items = <<>>

\* a rejected request whose response carries a body: GET and POST
C16_Witness ==
    /\ last.op \in {"subscriptions", "trending"}
    /\ ~last.answer.ok
    /\ last.answer.json # EmptyJson
    /\ last.value.items = <<>>
    /\ Len(last.reqs) = 1

\* a lookup by id that found nothing
FoundNothing ==
    \/ /\ last.op = "get_podcast_by_id"
       /\ (~last.answer.ok \/ ~Has(last.answer.json, "podcast"))
    \/ /\ last.op = "get_episode_by_id"
       /\ (~last.answer.ok \/ ~TruthyJson(last.answer.json))

\* C17 as stated: a lookup by id that finds nothing fails with NotFoundError.
C17_NotFoundRaises ==
    FoundNothing => last.error = "NotFoundError"

\* C17, amended: a lookup by id that finds nothing raises nothing and returns
\* None; get_episode_by_id then issues no request after the episode's.
C17_NotFoundReturnsNone ==
    FoundNothing
      => /\ last.error = None
         /\ last.value = NoneObj
         /\ Len(last.reqs) = 1

\* a podcast the server does not have, looked up by id
C17_Witness ==
    /\ last.op = "get_podcast_by_id"
    /\ last.answer.ok
    /\ last.answer.json = EmptyJson
    /\ last.value = NoneObj
    /\ last.error = None

\* the operations on the adapter held: reads, actions and the reload helper
SelfOps ==
    EpisodeOps \cup PodcastActions \cup AccessorOps
      \cup {"Podcast._get_full_podcast_object", "File.update", "File.delete"}

\* C19: no read, action or reload on an adapter changes its payload (so every
\* accessor keeps its value); only the podcast slot of an Episode may change.
C19_PayloadImmutable ==
    [][(TruthyStr(token) /\ last'.op \in SelfOps)
         => /\ held'.type = held.type
            /\ held'._data = held._data
            /\ held.type = "Podcast" => held' = held]_vars

\* C20: constructing the session issues exactly one request, the POST to
\* user/login with body {email, password, scope: 'webplayer'}, and no request
\* of the session is issued before construction has completed.
C20_LoginAtConstruction ==
    /\ (phase # "ready" /\ last.op # "PocketCast") => last.reqs = <<>>
    /\ last.op = "PocketCast"
         => /\ Len(last.reqs) = 1
            /\ last.reqs[1].method = "POST"
            /\ last.reqs[1].url = _make_url(api_base, <<"user", "login">>, "")
            /\ last.reqs[1].body =
                 [email |-> "email", password |-> "password", scope |-> "webplayer"]

\* a session just constructed, holding the token its login returned
C20_Witness ==
    /\ last.op = "PocketCast"
    /\ phase = "ready"
    /\ token \in Tokens
    /\ Len(last.reqs) = 1

StaticLists == {"trending", "popular", "featured"}

\* C21: trending, popular and featured each issue one GET to
\* {lists_base}/{name}.json, and categories and category one GET to the
\* catalog URL; none carries an Authorization header, whether or not the
\* session holds a token.
C21_StaticListsAnonymous ==
    last.op \in StaticLists \cup {"categories", "category"}
      => /\ Len(last.reqs) = 1
         /\ last.reqs[1].method = "GET"
         /\ last.reqs[1].headers = NoHeader
         /\ last.reqs[1].url =
              IF last.op \in StaticLists
              THEN [base |-> lists_base, path |-> <<last.op>>, suffix |-> ".json"]
              ELSE categories_url

\* a static list requested by a session that holds a token
C21_Witness ==
    /\ token \in Tokens
    /\ last.op = "popular"
    /\ last.answer.ok
    /\ last.value.items # <<>>
    /\ last.reqs[1].headers = NoHeader

\* the top-level operations of the session
SessionOps ==
    {"subscriptions", "search", "categories", "category", "account", "stats",
     "get_podcast_by_id", "get_episode_by_id"}

\* the JSON an operation reads from its answer: nothing when it is falsy
JsonOf(answer) == IF answer.ok THEN answer.json ELSE EmptyJson

\* what the operation op returns when it reads the answer
BuiltFrom(op, answer, value, error) ==
    CASE op \in {"subscriptions", "search"} ->
           value.items = IF Has(JsonOf(answer), "podcasts")
                         THEN [i \in 1..Len(answer.json.podcasts) |->
                                 Get(answer.json.podcasts[i], "uuid")]
                         ELSE <<>>
      [] op = "categories" ->
           value.items = IF TruthyJson(JsonOf(answer))
                         THEN [i \in 1..Len(answer.json.array) |-> Category(answer.json)]
                         ELSE <<>>
      [] op = "category" -> TRUE
      [] op = "account" -> value = Account(JsonOf(answer))
      [] op = "stats" ->
           value = IF TruthyJson(JsonOf(answer)) THEN Stats(answer.json) ELSE NoneObj
      [] op = "get_podcast_by_id" ->
           value = IF Has(JsonOf(answer), "podcast")
                   THEN _make_podcast(answer.json) ELSE NoneObj
      [] op = "get_episode_by_id" ->
           IF TruthyJson(JsonOf(answer))
           THEN error = None => value._data = answer.json
           ELSE value = NoneObj

\* C22: the session caches nothing: every invocation of a top-level operation,
\* also one that follows an invocation of the same operation, issues the
\* operation's request, and what it returns is built from the answer to that
\* request.
C22_NoSessionCache ==
    last.op \in SessionOps
      => /\ last.reqs # <<>>
         /\ last.reqs[1].method = IF last.op \in {"categories", "category", "account",
                                                  "get_podcast_by_id"}
                                  THEN "GET" ELSE "POST"
         /\ BuiltFrom(last.op, last.answer, last.value, last.error)

\* statistics read twice in a row, the second time from an answer without any
C22_Witness ==
    /\ last.op = "stats"
    /\ last.again
    /\ Len(last.reqs) = 1
    /\ last.value = NoneObj
    /\ last.answer.ok

\* the number of leading slashes of a path
RECURSIVE LeadingSlashes(_)
LeadingSlashes(path) ==
    IF Len(path) > 0 /\ Head(path) = "" THEN 1 + LeadingSlashes(Tail(path)) ELSE 0

\* C23: _make_url returns base, path' and suffix joined, where path' is the
\* path less one leading slash when it has one, and no more than one (a path
\* with two leading slashes keeps one); the suffix is the one given; a path
\* without a leading slash and the same path with one yield the same URL; and
\* the call reads and changes no state and issues no request.
C23_MakeUrl ==
    last.op = "_make_url"
      => /\ last.error = None /\ last.reqs = <<>>
         /\ phase = "new" /\ token = None /\ held = NoneObj
         /\ last.value.val.base = last.base
         /\ last.value.val.suffix = last.suffix
         /\ LeadingSlashes(last.value.val.path) =
              IF LeadingSlashes(last.endpoint) = 0 THEN 0
              ELSE LeadingSlashes(last.endpoint) - 1
         /\ Slashes(LeadingSlashes(last.endpoint) - LeadingSlashes(last.value.val.path))
              \o last.value.val.path = last.endpoint
         /\ LeadingSlashes(last.endpoint) = 0
              => _make_url(last.base, <<"">> \o last.endpoint, last.suffix) = last.value.val

\* a path with two leading slashes, of which one is left
C23_Witness ==
    /\ last.op = "_make_url"
    /\ LeadingSlashes(last.endpoint) = 2
    /\ LeadingSlashes(last.value.val.path) = 1
    /\ last.suffix = ".json"

\* C24: each episode listing of a logged-in session that returns issues
\* exactly one request, its own POST, whatever the number of episodes in the
\* answer: building the Episodes adds none.
C24_OneRequestPerListing ==
    (TruthyStr(token) /\ last.op \in EpisodeListings /\ last.error = None)
      => /\ Len(last.reqs) = 1
         /\ last.reqs[1].method = "POST"
         /\ last.reqs[1].url = _make_url(api_base, _get_endpoint(last.op), "")

\* C25: the slot of an Episode is read and written without synchronization.
\* As long as no two reads of its podcast overlap, a Podcast is stored in the
\* slot at most once and every fetch is followed by its write before the next
\* read begins; each read issues at most one fetch.  (That overlapping reads
\* fetch twice and store twice is the state C25_Witness.)
C25_ResolvedOnceWhenSequential ==
    /\ Len(last.reqs) <= Cardinality(Callers)
    /\ last.writes <= Len(last.reqs)
    /\ ~last.overlapped
         => /\ last.resolutions <= 1
            /\ last.resolutions = 1 => \A c \in Callers : callers[c].pc # "fetch"

\* two overlapping reads of one unresolved Episode: both saw the slot
\* unresolved, both fetched by id, both stored a Podcast
C25_Witness ==
    /\ last.overlapped
    /\ Cardinality(Fetches(last.reqs)) = 2
    /\ last.writes = 2
    /\ last.resolutions = 2
    /\ \A c \in Callers : callers[c].pc = "done" /\ TruthyObj(callers[c].local)

\* the episodes of the answer to a listing
EpisodesOf(answer) ==
    IF answer.ok /\ Has(answer.json, "episodes") THEN answer.json.episodes ELSE <<>>

\* C26: resolving the podcast of an Episode terminates.  No operation ends in
\* unbounded recursion between podcast_id and podcast; building an Episode
\* from a payload without podcastUuid and without a podcast ends with an
\* error after no more requests than the listing's own and one per episode;
\* no Episode is ever held with neither a podcastUuid nor a podcast, so every
\* read of podcast_id or podcast ends after at most one fetch.
C26_ResolutionTerminates ==
    /\ last.error # "RecursionError"
    /\ IsEpisode(held) => (TruthyStr(Get(held._data, "podcastUuid")) \/ Resolved(held))
    /\ (last.op \in EpisodeListings
          /\ \E i \in DOMAIN EpisodesOf(last.answer) :
               ~Has(EpisodesOf(last.answer)[i], "podcastUuid"))
         => /\ last.error = "AttributeError"
            /\ Len(last.reqs) <= 1 + Len(EpisodesOf(last.answer))
    /\ last.op = "Episode.podcast"
         => (last.error = None /\ Cardinality(Fetches(last.reqs)) <= 1)

\* a listing answered with an episode that names no podcast: it ended, with
\* an error and only its own request
C26_Witness ==
    /\ last.op = "in_progress"
    /\ EpisodesOf(last.answer) # <<>>
    /\ ~Has(EpisodesOf(last.answer)[1], "podcastUuid")
    /\ last.error = "AttributeError"
    /\ Len(last.reqs) = 1

\* C27: every request that carries an Authorization header carries
\* 'Bearer <t>' with t the token the login returned; a session whose login
\* stored no token sends no request with a header built from the unset token.
C27_HeaderFromLoginToken ==
    \A i \in DOMAIN last.reqs :
        last.reqs[i].headers # NoHeader
          => /\ token \in Tokens
             /\ last.reqs[i].headers = Bearer(token)

\* C28: get_episode_by_id whose episode request returns data issues the fetch
\* by id of the podcast exactly once, also when it finds no podcast, and
\* returns an Episode; when the episode request returns nothing it issues no
\* fetch by id and returns nothing.
C28_EpisodeByIdFetchesOnce ==
    (TruthyStr(token) /\ last.op = "get_episode_by_id")
      => IF TruthyJson(JsonOf(last.answer))
         THEN /\ last.error = None
              /\ Cardinality(Fetches(last.reqs)) = 1
              /\ IsEpisode(last.value)
         ELSE /\ Fetches(last.reqs) = {}
              /\ last.value = NoneObj

\* C29: in the earlier revision, each of mark_played, mark_unplayed, archive,
\* unarchive, play_next and play_last, on an Episode that a listing returned
\* without a podcast, issues one POST that carries the id of the episode's
\* podcast and returns a boolean; it does not fail for lack of a podcast.
C29_ActionsOfListedEpisodes ==
    (TruthyStr(token) /\ last.op \in pocketcasts_EpisodeActions
       /\ IsEpisode(held) /\ ~TruthyObj(held.podcast))
      => /\ last.error = None
         /\ Len(last.reqs) = 1
         /\ last.reqs[1].method = "POST"
         /\ last.value = RetBool(last.response)

\* what holds of every Episode that Podcast.episodes returns, whatever its
\* podcast_id: the call issued its one POST and no fetch by id, the Episode's
\* slot holds the parent, and a read of its podcast returns the parent and
\* issues no request
EpisodeOfParent(parent, e, reqs) ==
    /\ Len(reqs) = 1
    /\ reqs[1].method = "POST"
    /\ Fetches(reqs) = {}
    /\ IsEpisode(e)
    /\ e._podcast = parent
    /\ Episode_podcast(e, TRUE, 1).value = parent
    /\ Episode_podcast(e, TRUE, 1).reqs = <<>>
    /\ Episode_podcast_id(e, TRUE, 1).reqs = <<>>

\* C30 as stated: every Episode returned by Podcast.episodes holds the parent
\* from construction on, and its podcast_id is the parent's id.
C30_EpisodesOfParent ==
    [][(TruthyStr(token) /\ held.type = "Podcast"
          /\ last'.op = "Podcast.episodes" /\ last'.value.items # <<>>)
         => /\ EpisodeOfParent(held, held', last'.reqs)
            /\ Episode_podcast_id(held', TRUE, 1).value = Podcast_id(held)]_vars

\* C30, amended: every Episode returned by Podcast.episodes holds the parent
\* from construction on; its podcast_id is the podcastUuid of its own payload
\* when it has one, and the parent's id otherwise.
C30_EpisodesKeepParent ==
    [][(held.type = "Podcast"
          /\ last'.op = "Podcast.episodes" /\ last'.value.items # <<>>)
         => /\ EpisodeOfParent(held, held', last'.reqs)
            /\ Episode_podcast_id(held', TRUE, 1).value =
                 IF TruthyStr(Get(held'._data, "podcastUuid"))
                 THEN held'._data.podcastUuid
                 ELSE Podcast_id(held)]_vars

\* an Episode of the podcast p2 whose payload names the podcast p1
C30_Witness ==
    /\ last.op = "Podcast.episodes"
    /\ Len(last.reqs) = 1
    /\ Resolved(held)
    /\ Podcast_id(held._podcast) = "p2"
    /\ Get(held._data, "podcastUuid") = "p1"

====
